---- MODULE Spec2Model ----
(***************************************************************************)
(* Model of the grevm transaction-dependency partitioner                   *)
(* (crates/grevm/src/tx_dependency.rs) and of the round loop of the        *)
(* scheduler (crates/grevm/src/scheduler.rs).                              *)
(*                                                                         *)
(* TxIds are 0-based as in the source; TLA+ sequences are 1-based, so the  *)
(* entry of TxId t in a Vec v is v[t + 1].                                 *)
(***************************************************************************)
EXTENDS Integers, Sequences, FiniteSets, TLC

\* ------------------------------------------------------------------ bounds
MaxTxs == 3          \* largest batch explored
MaxParts == 3        \* largest partition_count explored
CpuCores == 1        \* value of *CPU_CORES on the modelled machine
MaxSkew == 1         \* largest size mismatch handed to update_tx_dependency
MaxSchedParts == 4   \* largest GrevmScheduler.num_partitions explored
ValueMod == 4        \* values stored at a location are 0..ValueMod-1
MaxWeightedTxs == 5  \* longest tail partitioned with assigned weights
MaxBatch == 2        \* largest batch handed to the scheduler

\* ------------------------------------------------- program constants
RAW_TRANSFER_WEIGHT == 1

MAX_NUM_ROUND == 3

VARIABLES
    hints,             \* the argument of TxDependency::new, remembered until the first
                       \* update_tx_dependency or clean_dependency call
    num_txs,           \* batch size fixed by TxDependency::new
    tx_dependency,     \* TxDependency.tx_dependency : Vec<DependentTxsVec>
    num_finality_txs,  \* TxDependency.num_finality_txs
    tx_weight,         \* TxDependency.tx_weight : Option<Vec<usize>>
    all_independent,   \* TxDependency.all_independent
    call,              \* the last call made on the object, its arguments and outcome
    txs,               \* GrevmScheduler.txs
    sched_hints,       \* the hints argument of parallel_execute
    sched_num_partitions,   \* GrevmScheduler.num_partitions
    dependencies,      \* GrevmScheduler.dependencies
    partitioned_txs,   \* GrevmScheduler.partitioned_txs
    partition_executors,    \* GrevmScheduler.partition_executors
    merged_write_set,  \* GrevmScheduler.merged_write_set
    sched_num_finality_txs, \* GrevmScheduler.num_finality_txs
    state,             \* GrevmScheduler.state: the committed value of every location
    pc,                \* position of parallel_execute
    round_i,           \* the loop variable i of parallel_execute
    rounds_run         \* number of round_execute calls made so far

depVars == <<hints, num_txs, tx_dependency, num_finality_txs, tx_weight, all_independent, call>>

schedVars == <<txs, sched_hints, sched_num_partitions, dependencies, partitioned_txs,
               partition_executors, merged_write_set, sched_num_finality_txs, state, pc,
               round_i, rounds_run>>

vars == <<depVars, schedVars>>

\* ------------------------------------------------------------ helpers
\* the LocationAndType values explored, in their order
Locations == {1, 2}

min(a, b) == IF a <= b THEN a ELSE b

SetMax(S) == CHOOSE x \in S : \A y \in S : y <= x

SetMin(S) == CHOOSE x \in S : \A y \in S : x <= y

Elems(s) == {s[i] : i \in 1..Len(s)}

RECURSIVE SortedSeq(_)
\* BTreeSet::into_iter().collect(): the elements in ascending order
SortedSeq(S) == IF S = {} THEN <<>> ELSE <<SetMin(S)>> \o SortedSeq(S \ {SetMin(S)})

None == [some |-> FALSE, v |-> <<>>]

Some(x) == [some |-> TRUE, v |-> x]

\* ----------------------------------------------------- fork_join_util
\* Range [start_pos, end_pos) handed to the closure of part `index` when
\* num_elements elements are split over parallel_cnt parts.
ForkJoinStart(num_elements, parallel_cnt, index) ==
    (num_elements \div parallel_cnt) * index + min(index, num_elements % parallel_cnt)

ForkJoinEnd(num_elements, parallel_cnt, index) ==
    ForkJoinStart(num_elements, parallel_cnt, index) + (num_elements \div parallel_cnt)
        + (IF index < num_elements % parallel_cnt THEN 1 ELSE 0)

\* ------------------------------------------- generate_tx_dependency
\* write_set.get(location): the TxIds whose hinted write set holds location
HintWriters(h, location) == {pos \in 0..(Len(h) - 1) : location \in h[pos + 1].write_set}

\* PreviousWriter taking the first earlier writer: ws.range(..pos).next()
PreviousWriterFirst(ws, pos) ==
    LET earlier == {w \in ws : w < pos}
    IN  IF earlier = {} THEN None ELSE Some(SetMin(earlier))

\* ws.range(..pos).next_back()
PreviousWriter(ws, pos) ==
    LET earlier == {w \in ws : w < pos}
    IN  IF earlier = {} THEN None ELSE Some(SetMax(earlier))

RECURSIVE IterOrders(_)
\* the orders in which iter() can visit a hash set: read_set is a set of
\* crate::hint whose iteration order is not fixed
IterOrders(S) ==
    IF S = {} THEN {<<>>}
    ELSE UNION {{<<x>> \o order : order \in IterOrders(S \ {x})} : x \in S}

RECURSIVE ReadOrders(_, _)
\* for each of the first n transactions, an order in which line 72 visits its
\* hinted read set
ReadOrders(h, n) ==
    IF n = 0 THEN {<<>>}
    ELSE {Append(orders, read_set) :
             orders \in ReadOrders(h, n - 1), read_set \in IterOrders(h[n].read_set)}

RECURSIVE DepTxsFrom(_, _, _, _)
\* dep_txs of transaction pos: for location in read_set.iter(), the read set
\* visited in the order of the sequence read_set, from position k
DepTxsFrom(h, pos, read_set, k) ==
    IF k > Len(read_set) THEN <<>>
    ELSE LET previous == PreviousWriter(HintWriters(h, read_set[k]), pos)
         IN  (IF previous.some THEN <<previous.v>> ELSE <<>>)
                 \o DepTxsFrom(h, pos, read_set, k + 1)

DepTxs(h, orders, pos) == DepTxsFrom(h, pos, orders[pos + 1], 1)

parallel_cnt == CpuCores * 2 + 1

\* the Vec<DependentTxsVec> pushed by part `part` of the second fork_join_util
PartDeps(h, orders, part) ==
    LET start_pos == ForkJoinStart(Len(h), parallel_cnt, part)
        end_pos == ForkJoinEnd(Len(h), parallel_cnt, part)
    IN  [k \in 1..(end_pos - start_pos) |-> DepTxs(h, orders, start_pos + k - 1)]

RECURSIVE ExtendParts(_, _, _)
\* tx_deps.extend(deps) for the parts part, part + 1, ...
ExtendParts(h, orders, part) ==
    IF part >= parallel_cnt THEN <<>>
    ELSE PartDeps(h, orders, part) \o ExtendParts(h, orders, part + 1)

\* AllIndependentFlag that starts false
AllIndependentFlagStuckFalse(h) == Len(h) < 0

\* all_independent starts true and is stored false wherever a dependency is pushed
AllIndependentFlag(h) ==
    ~ \E pos \in 0..(Len(h) - 1), location \in Locations :
          /\ location \in h[pos + 1].read_set
          /\ PreviousWriter(HintWriters(h, location), pos).some

\* the graph and the flag, the read sets visited in the given orders
generate_tx_dependency(h, orders) ==
    [tx_dependency |-> ExtendParts(h, orders, 0), all_independent |-> AllIndependentFlag(h)]

\* ------------------------------------------ all_independent_partitions
\* AllIndependentChunk whose start forgets the chunks enlarged by the remainder
AllIndependentChunkNoRemainder(num_txs_, num_partitions, nf, index) ==
    LET remaining == num_txs_ % num_partitions
        chunk_size == num_txs_ \div num_partitions
        start_tx == chunk_size * index + nf
        end_tx == start_tx + chunk_size + (IF index < remaining THEN 1 ELSE 0)
    IN  [k \in 1..(end_tx - start_tx) |-> start_tx + k - 1]

\* AllIndependentChunk that gives the remainder to the last chunks
AllIndependentChunkSmallFirst(num_txs_, num_partitions, nf, index) ==
    LET remaining == num_txs_ % num_partitions
        chunk_size == num_txs_ \div num_partitions
        enlarged == index - (num_partitions - remaining)
        start_tx == chunk_size * index + (IF enlarged > 0 THEN enlarged ELSE 0) + nf
        end_tx == start_tx + chunk_size + (IF enlarged >= 0 THEN 1 ELSE 0)
    IN  [k \in 1..(end_tx - start_tx) |-> start_tx + k - 1]

AllIndependentChunk(num_txs_, num_partitions, nf, index) ==
    LET remaining == num_txs_ % num_partitions
        chunk_size == num_txs_ \div num_partitions
        start_tx == chunk_size * index + min(index, remaining) + nf
        end_tx == start_tx + chunk_size + (IF index < remaining THEN 1 ELSE 0)
    IN  [k \in 1..(end_tx - start_tx) |-> start_tx + k - 1]

\* A call either returns (panic = FALSE, partitions = the Vec<Vec<TxId>>) or panics
Returned(parts) == [panic |-> FALSE, partitions |-> parts]

Panicked == [panic |-> TRUE, partitions |-> <<>>]

all_independent_partitions(deps, nf, partition_count) ==
    LET len == Len(deps)
        num_partitions == min(partition_count, len)
    IN  IF num_partitions = 0 THEN Panicked   \* num_txs % 0
        ELSE Returned([index1 \in 1..num_partitions |->
                          AllIndependentChunk(len, num_partitions, nf, index1 - 1)])

\* ------------------------------------------------ fetch_best_partitions
\* State of the first loop (lines 126-150): the reverse adjacency, the related
\* marks, the single groups pushed so far, the group count; panic is set when
\* `*txi - num_finality_txs` underflows or indexes past the tail.
RelateInit(len) ==
    [revert_dependency |-> [i \in 1..len |-> <<>>],
     is_related |-> [i \in 1..len |-> FALSE],
     single_groups |-> <<>>,
     num_group |-> 0,
     panic |-> FALSE]

RECURSIVE RelateDepsNoRevert(_, _, _, _, _)
\* RelateDeps that marks txi related and records no reverse edge
RelateDepsNoRevert(st, txj_dep, k, txj, nf) ==
    IF k > Len(txj_dep) \/ st.panic THEN st
    ELSE LET txi == txj_dep[k]
             txi_index == txi - nf
         IN  IF txi_index < 0 \/ txi_index >= Len(st.is_related)
             THEN [st EXCEPT !.panic = TRUE]
             ELSE RelateDepsNoRevert([st EXCEPT !.is_related[txi_index + 1] = TRUE],
                                     txj_dep, k + 1, txj, nf)

RECURSIVE RelateDeps(_, _, _, _, _)
\* for txi in txj_dep, from position k of txj_dep
RelateDeps(st, txj_dep, k, txj, nf) ==
    IF k > Len(txj_dep) \/ st.panic THEN st
    ELSE LET txi == txj_dep[k]
             txi_index == txi - nf
         IN  IF txi_index < 0 \/ txi_index >= Len(st.is_related)
             THEN [st EXCEPT !.panic = TRUE]
             ELSE RelateDeps(
                      [st EXCEPT !.revert_dependency[txi_index + 1] = Append(@, txj),
                                 !.is_related[txi_index + 1] = TRUE],
                      txj_dep, k + 1, txj, nf)

RelateStep(st, deps, nf, index) ==
    LET txj == index + nf
        txj_dep == deps[index + 1]
    IN  IF txj_dep = <<>>
        THEN IF ~ st.is_related[index + 1]
             THEN [st EXCEPT !.single_groups = Append(@, <<txj>>),
                             !.num_group = @ + 1]
             ELSE st
        ELSE RelateDeps([st EXCEPT !.is_related[index + 1] = TRUE], txj_dep, 1, txj, nf)

RECURSIVE RelateLoop(_, _, _, _)
\* for index in (0..len).rev(), from index downwards
RelateLoop(st, deps, nf, index) ==
    IF index < 0 \/ st.panic THEN st
    ELSE RelateLoop(RelateStep(st, deps, nf, index), deps, nf, index - 1)

\* State of one breadth-first flood (lines 158-179)
RECURSIVE FloodNeighbours(_, _, _, _)
\* for top_down in tx_dependency[top_index].chain(revert_dependency[top_index]), from position k
FloodNeighbours(fl, neighbours, k, nf) ==
    IF k > Len(neighbours) THEN fl
    ELSE LET next_index == neighbours[k] - nf
         IN  IF fl.is_related[next_index + 1]
             THEN FloodNeighbours(
                      [fl EXCEPT !.breadth_queue = Append(@, next_index),
                                 !.is_related[next_index + 1] = FALSE],
                      neighbours, k + 1, nf)
             ELSE FloodNeighbours(fl, neighbours, k + 1, nf)

RECURSIVE Flood(_, _, _, _, _, _)
\* while let Some(top_index) = breadth_queue.pop_front()
Flood(fl, deps, revert_dependency, nf, weights, index) ==
    IF fl.breadth_queue = <<>> THEN fl
    ELSE LET top_index == Head(fl.breadth_queue)
             popped == [fl EXCEPT !.breadth_queue = Tail(@)]
             seen == FloodNeighbours(popped,
                                     deps[top_index + 1] \o revert_dependency[top_index + 1],
                                     1, nf)
         IN  Flood([seen EXCEPT !.weight = @ + weights[index + 1],
                                !.group = Append(@, top_index + nf)],
                   deps, revert_dependency, nf, weights, index)

\* weighted_group.entry(weight).or_default().push(group)
PushGroup(weighted_group, weight, group) ==
    IF weight \in DOMAIN weighted_group
    THEN [weighted_group EXCEPT ![weight] = Append(@, group)]
    ELSE weighted_group @@ (weight :> <<group>>)

GroupStep(gs, deps, revert_dependency, nf, weights, txid) ==
    LET index == txid - nf
    IN  IF gs.is_related[index + 1]
        THEN LET fl == Flood([is_related |-> [gs.is_related EXCEPT ![index + 1] = FALSE],
                              breadth_queue |-> <<index>>,
                              group |-> <<>>,
                              weight |-> 0],
                             deps, revert_dependency, nf, weights, index)
             IN  [is_related |-> fl.is_related,
                  weighted_group |-> PushGroup(gs.weighted_group, fl.weight, fl.group),
                  num_group |-> gs.num_group + 1]
        ELSE gs

RECURSIVE GroupLoop(_, _, _, _, _, _)
\* while txid >= num_finality_txs { ...; if txid == 0 { break; } txid -= 1; }
GroupLoop(gs, deps, revert_dependency, nf, weights, txid) ==
    IF txid < nf THEN gs
    ELSE LET after == GroupStep(gs, deps, revert_dependency, nf, weights, txid)
         IN  IF txid = 0 THEN after
             ELSE GroupLoop(after, deps, revert_dependency, nf, weights, txid - 1)

\* The groups of fetch_best_partitions (lines 112-187): weighted_group and num_group,
\* or a panic
Groups(deps, nf, weights) ==
    LET len == Len(deps)
        rel == RelateLoop(RelateInit(len), deps, nf, len - 1)
        start == IF rel.single_groups = <<>> THEN <<>>
                 ELSE (RAW_TRANSFER_WEIGHT :> rel.single_groups)
        gs == GroupLoop([is_related |-> rel.is_related,
                         weighted_group |-> start,
                         num_group |-> rel.num_group],
                        deps, rel.revert_dependency, nf, weights, nf + len - 1)
    IN  IF nf + len - 1 < 0 \/ rel.panic
        THEN [panic |-> TRUE, weighted_group |-> <<>>, num_group |-> 0]
        ELSE [panic |-> FALSE, weighted_group |-> gs.weighted_group, num_group |-> gs.num_group]

\* the single groups handed to partition `index` by fork_join_util (lines 201-210)
SinglesOf(groups, num_partitions, index) ==
    LET start_pos == ForkJoinStart(Len(groups), num_partitions, index)
        end_pos == ForkJoinEnd(Len(groups), num_partitions, index)
    IN  UNION {Elems(groups[pos + 1]) : pos \in start_pos..(end_pos - 1)}

\* HeapPop of a heap without Reverse: the greatest (weight, index) pair
HeapPopHeaviest(partition_weight) ==
    CHOOSE e \in partition_weight :
        \A o \in partition_weight : e[1] > o[1] \/ (e[1] = o[1] /\ e[2] >= o[2])

\* BinaryHeap<Reverse<(weight, index)>>::pop(): the least (weight, index) pair
HeapPop(partition_weight) ==
    CHOOSE e \in partition_weight :
        \A o \in partition_weight : e[1] < o[1] \/ (e[1] = o[1] /\ e[2] <= o[2])

RECURSIVE WeightsDescending(_)
\* the keys of weighted_group in the order of into_iter().rev()
WeightsDescending(keys) ==
    IF keys = {} THEN <<>> ELSE <<SetMax(keys)>> \o WeightsDescending(keys \ {SetMax(keys)})

RECURSIVE PlaceGroups(_, _, _, _)
\* for group in groups, from position k, each added to the partition popped from the heap
PlaceGroups(pl, add_weight, groups, k) ==
    IF k > Len(groups) THEN pl
    ELSE IF pl.partition_weight = {} THEN PlaceGroups(pl, add_weight, groups, k + 1)
    ELSE LET top == HeapPop(pl.partition_weight)
             weight == top[1]
             index == top[2]
         IN  PlaceGroups(
                 [partitioned_group |->
                      [pl.partitioned_group EXCEPT ![index + 1] = @ \cup Elems(groups[k])],
                  partition_weight |->
                      (pl.partition_weight \ {top}) \cup {<<weight + add_weight, index>>}],
                 add_weight, groups, k + 1)

RECURSIVE PlaceWeights(_, _, _, _)
\* for (add_weight, groups) in weighted_group.into_iter().rev(), from position k
PlaceWeights(pl, weighted_group, order, k) ==
    IF k > Len(order) THEN pl
    ELSE PlaceWeights(PlaceGroups(pl, order[k], weighted_group[order[k]], 1),
                      weighted_group, order, k + 1)

\* lines 189-233: spread the groups over min(partition_count, num_group) partitions
Spread(weighted_group, num_group, partition_count) ==
    LET num_partitions == min(partition_count, num_group)
        singles == IF RAW_TRANSFER_WEIGHT \in DOMAIN weighted_group
                   THEN weighted_group[RAW_TRANSFER_WEIGHT] ELSE <<>>
        rest == [w \in (DOMAIN weighted_group) \ {RAW_TRANSFER_WEIGHT} |-> weighted_group[w]]
        partitioned_group == [index1 \in 1..num_partitions |->
                                 SinglesOf(singles, num_partitions, index1 - 1)]
        partition_weight == {<<Cardinality(partitioned_group[index1]) * RAW_TRANSFER_WEIGHT,
                               index1 - 1>> : index1 \in 1..num_partitions}
        placed == PlaceWeights([partitioned_group |-> partitioned_group,
                                partition_weight |-> partition_weight],
                               rest, WeightsDescending(DOMAIN rest), 1)
        kept == SelectSeq(placed.partitioned_group, LAMBDA bs : bs # {})
    IN  IF num_partitions = 0 THEN <<<<>>>>
        ELSE [i \in 1..Len(kept) |-> SortedSeq(kept[i])]

UnwrapWeights(weight_opt, len) ==
    IF weight_opt.some THEN weight_opt.v ELSE [i \in 1..len |-> RAW_TRANSFER_WEIGHT]

fetch_best_partitions(deps, nf, weight_opt, independent, partition_count) ==
    IF independent THEN all_independent_partitions(deps, nf, partition_count)
    ELSE LET g == Groups(deps, nf, UnwrapWeights(weight_opt, Len(deps)))
         IN  IF g.panic THEN Panicked
             ELSE Returned(Spread(g.weighted_group, g.num_group, partition_count))

\* ------------------------------------------------- update_tx_dependency
\* update_tx_dependency comparing the lengths of the graphs only
update_tx_dependency_len_only(deps, nf, new_deps, new_nf) ==
    IF Len(deps) # Len(new_deps)
    THEN [panic |-> TRUE, tx_dependency |-> deps, num_finality_txs |-> nf]
    ELSE [panic |-> FALSE, tx_dependency |-> new_deps, num_finality_txs |-> new_nf]

update_tx_dependency(deps, nf, new_deps, new_nf) ==
    IF Len(deps) + nf # Len(new_deps) + new_nf
    THEN [panic |-> TRUE, tx_dependency |-> deps, num_finality_txs |-> nf]
    ELSE [panic |-> FALSE, tx_dependency |-> new_deps, num_finality_txs |-> new_nf]

\* ------------------------------------------------------ clean_dependency
clean_dependency(deps) == [i \in 1..Len(deps) |-> <<>>]

\* ------------------------------------------------------------- inputs
HintRecords == [read_set : SUBSET Locations, write_set : SUBSET Locations]

HintVectors == UNION {[1..n -> HintRecords] : n \in 0..MaxTxs}

\* Dependency vectors for the tail [nf, nf + len): the entry of TxId t names
\* TxIds lower than t ("transactions only rely on transactions with lower ID"),
\* finalized ones included.
RECURSIVE DepVectors(_, _)
DepVectors(nf, len) ==
    IF len = 0 THEN {<<>>}
    ELSE {Append(v, SortedSeq(S)) :
             v \in DepVectors(nf, len - 1), S \in SUBSET (0..(nf + len - 2))}

\* weights is what a fetch_best_partitions call took out of tx_weight (line 116)
CallRecord(op, result, partition_count, new_deps, new_nf) ==
    [op |-> op, panic |-> result.panic, partitions |-> result.partitions,
     partition_count |-> partition_count, new_deps |-> new_deps, new_nf |-> new_nf,
     weights |-> None]

\* the weights a transaction can be given
Weights == {1, 2}

\* Dependency vectors for the tail [nf, nf + len) in which every transaction names
\* at most one dependency, one of the two TxIds of the tail just below it
RECURSIVE NearVectors(_, _)
NearVectors(nf, len) ==
    IF len = 0 THEN {<<>>}
    ELSE {Append(v, dep) :
             v \in NearVectors(nf, len - 1),
             dep \in {<<>>} \cup {<<d>> : d \in {x \in nf..(nf + len - 2) : x >= nf + len - 3}}}

\* ------------------------------------------------------- state machine
\* No scheduler owns the TxDependency object
NoScheduler ==
    /\ txs = <<>>
    /\ sched_hints = <<>>
    /\ sched_num_partitions = 0
    /\ dependencies = <<>>
    /\ partitioned_txs = <<>>
    /\ partition_executors = <<>>
    /\ merged_write_set = [location \in Locations |-> {}]
    /\ sched_num_finality_txs = 0
    /\ state = [location \in Locations |-> 0]
    /\ pc = "none"
    /\ round_i = 0
    /\ rounds_run = 0

\* TxDependency::new(parallel_execution_hints); remembered is what the
\* specification keeps of the argument
New(h, remembered) ==
    /\ hints = remembered
    /\ num_txs = Len(h)
    /\ \E orders \in ReadOrders(h, Len(h)) :
           LET g == generate_tx_dependency(h, orders)
           IN  /\ tx_dependency = g.tx_dependency
               /\ all_independent = g.all_independent
    /\ num_finality_txs = 0
    /\ tx_weight = None
    /\ call = CallRecord("new", Returned(<<>>), 0, <<>>, 0)
    /\ NoScheduler

Init == \E h \in HintVectors : New(h, None)

UpdateTxDependency ==
    \E new_nf \in 0..MaxTxs :
      \E len \in 0..(MaxTxs - new_nf) :
        \E new_deps \in DepVectors(new_nf, len) :
            LET r == update_tx_dependency(tx_dependency, num_finality_txs, new_deps, new_nf)
            IN  /\ len + new_nf - num_txs \in (0 - MaxSkew)..MaxSkew
                /\ tx_dependency' = r.tx_dependency
                /\ num_finality_txs' = r.num_finality_txs
                /\ hints' = None
                /\ call' = CallRecord("update", [panic |-> r.panic, partitions |-> <<>>],
                                      0, new_deps, new_nf)
                /\ UNCHANGED <<num_txs, tx_weight, all_independent>>
                /\ UNCHANGED schedVars

FetchBestPartitions ==
    \E partition_count \in 0..MaxParts :
        /\ call' = [CallRecord("fetch",
                               fetch_best_partitions(tx_dependency, num_finality_txs, tx_weight,
                                                     all_independent, partition_count),
                               partition_count, <<>>, 0)
                        EXCEPT !.weights = IF all_independent THEN None ELSE tx_weight]
        /\ tx_weight' = IF all_independent THEN tx_weight ELSE None
        /\ UNCHANGED <<hints, num_txs, tx_dependency, num_finality_txs, all_independent>>
        /\ UNCHANGED schedVars

CleanDependency ==
    /\ tx_dependency' = clean_dependency(tx_dependency)
    /\ hints' = None
    /\ call' = CallRecord("clean", Returned(<<>>), 0, <<>>, 0)
    /\ UNCHANGED <<num_txs, num_finality_txs, tx_weight, all_independent>>
    /\ UNCHANGED schedVars

Next == UpdateTxDependency \/ FetchBestPartitions \/ CleanDependency

\* The life of one TxDependency object
Spec == Init /\ [][Next]_vars

\* Construction from hints followed by the first partitioning of the fresh graph,
\* the hints remembered (repeated calls are part of Spec)
InitHints == \E h \in HintVectors : New(h, Some(h))

NextHints == call.op = "new" /\ FetchBestPartitions

SpecHints == InitHints /\ [][NextHints]_vars

\* A TxDependency object whose flag all_independent is false (its hints gave an
\* edge) after update_tx_dependency(deps, nf) replaced the graph
InitWeights ==
    \E nf \in 0..1 :
      \E len \in (2 - nf)..(MaxWeightedTxs - nf) :
        \E deps \in NearVectors(nf, len) :
            /\ hints = None
            /\ num_txs = nf + len
            /\ tx_dependency = deps
            /\ num_finality_txs = nf
            /\ tx_weight = None
            /\ all_independent = FALSE
            /\ call = CallRecord("update", Returned(<<>>), 0, deps, nf)
            /\ NoScheduler

\* weights are given to the transactions of the tail before it is partitioned
AssignTxWeight ==
    /\ call.op = "update"
    /\ ~ tx_weight.some
    /\ \E w \in [1..Len(tx_dependency) -> Weights] : tx_weight' = Some(w)
    /\ UNCHANGED <<hints, num_txs, tx_dependency, num_finality_txs, all_independent, call>>
    /\ UNCHANGED schedVars

NextWeights == AssignTxWeight \/ (call.op = "update" /\ FetchBestPartitions)

\* The first partitioning of an updated graph, with or without assigned weights
SpecWeights == InitWeights /\ [][NextWeights]_vars

\* ================================================================ scheduler
\* A transaction (TxEnv) reads the locations of `reads` (at most one here) and
\* stores one value, computed from what it read and from its TxId, at the locations
\* of `writes` (exactly one here). The scheduler itself only ever asks for txs.len().
TxKinds ==
    {k \in [reads : SUBSET Locations, writes : SUBSET Locations] :
        Cardinality(k.reads) <= 1 /\ Cardinality(k.writes) = 1}

Batches == UNION {[1..n -> TxKinds] : n \in 0..MaxBatch}

\* the hints: Vec<Vec<TxId>> handed to parallel_execute for a batch of n
\* transactions: no dependency at all, or every transaction after its predecessor
DependencyHints(n) ==
    {[t \in 1..n |-> <<>>], [t \in 1..n |-> IF t = 1 THEN <<>> ELSE <<t - 2>>]}

RECURSIVE ReadSum(_, _)
ReadSum(locations, view) ==
    IF locations = {} THEN 0
    ELSE view[SetMin(locations)] + ReadSum(locations \ {SetMin(locations)}, view)

\* execute(tx, view) -> (read_set, write_set, result) and the view after it
ExecuteTx(txid, tx, view) ==
    LET value == (ReadSum(tx.reads, view) + txid + 1) % ValueMod
    IN  [outcome |-> [read_set |-> tx.reads, write_set |-> tx.writes, result |-> value],
         view |-> [location \in Locations |->
                      IF location \in tx.writes THEN value ELSE view[location]]]

\* line 103 and 110: transactions remain to be finalized
Unfinalized == sched_num_finality_txs < Len(txs)

\* line 102: the round loop goes on
InLoop == round_i < MAX_NUM_ROUND

\* the task spawned for executor e in the current round_execute has completed
TaskDone(e) ==
    partition_executors[e].runs = rounds_run - partition_executors[e].created + 1

\* JoinReady of a join that returns with the first completed task
JoinReadyFirst == partition_executors = <<>> \/ \E e \in 1..Len(partition_executors) : TaskDone(e)

\* line 77: join_all(tasks).await returns once every spawned task has completed
JoinReady == \A e \in 1..Len(partition_executors) : TaskDone(e)

\* A GrevmScheduler that holds a batch, before parallel_execute(hints) is called:
\* nothing is partitioned, executed or finalized yet
SchedInit ==
    \E batch \in Batches, k \in 0..MaxSchedParts :
        \E h \in DependencyHints(Len(batch)) :
            /\ txs = batch
            /\ sched_hints = h
            /\ sched_num_partitions = k
            /\ dependencies = <<>>
            /\ partitioned_txs = <<>>
            /\ partition_executors = <<>>
            /\ merged_write_set = [location \in Locations |-> {}]
            /\ sched_num_finality_txs = 0
            /\ state = [location \in Locations |-> 0]
            /\ pc = "start"
            /\ round_i = 0
            /\ rounds_run = 0
            /\ hints = None
            /\ num_txs = 0
            /\ tx_dependency = <<>>
            /\ num_finality_txs = 0
            /\ tx_weight = None
            /\ all_independent = TRUE
            /\ call = CallRecord("new", Returned(<<>>), 0, <<>>, 0)

\* line 101: init_dependencies(hints). Its body is two comments and a call of
\* partition_transactions(), whose body is a comment: the argument is dropped and no
\* field is assigned
InitDependencies ==
    /\ pc = "start"
    /\ pc' = "loop"
    /\ round_i' = 0
    /\ UNCHANGED <<depVars, txs, sched_hints, sched_num_partitions, dependencies,
                   partitioned_txs, partition_executors, merged_write_set,
                   sched_num_finality_txs, state, rounds_run>>

\* line 103 false: nothing left for this iteration
SkipRound ==
    /\ pc = "loop" /\ InLoop /\ ~ Unfinalized
    /\ round_i' = round_i + 1
    /\ UNCHANGED <<depVars, txs, sched_hints, sched_num_partitions, dependencies,
                   partitioned_txs, partition_executors, merged_write_set,
                   sched_num_finality_txs, state, pc, rounds_run>>

\* lines 103-104 and 65-76: round_execute() pushes num_partitions executors and
\* spawns one task for every element of partition_executors
SpawnTasks ==
    /\ pc = "loop" /\ InLoop /\ Unfinalized
    /\ partition_executors' =
           partition_executors \o
               [p \in 1..sched_num_partitions |->
                   [partition_id |-> p - 1, created |-> rounds_run + 1, runs |-> 0]]
    /\ rounds_run' = rounds_run + 1
    /\ pc' = "spawned"
    /\ UNCHANGED <<depVars, txs, sched_hints, sched_num_partitions, dependencies,
                   partitioned_txs, merged_write_set, sched_num_finality_txs, state, round_i>>

\* line 74: one spawned task runs executor.write().unwrap().execute() to its end;
\* the task holds the executor and no field of the scheduler
TaskExecute ==
    /\ pc = "spawned"
    /\ \E e \in 1..Len(partition_executors) :
           /\ ~ TaskDone(e)
           /\ partition_executors' = [partition_executors EXCEPT ![e].runs = @ + 1]
    /\ UNCHANGED <<depVars, txs, sched_hints, sched_num_partitions, dependencies,
                   partitioned_txs, merged_write_set, sched_num_finality_txs, state, pc,
                   round_i, rounds_run>>

\* lines 77-78: join_all(tasks).await returns and block_on with it
JoinAll ==
    /\ pc = "spawned"
    /\ JoinReady
    /\ pc' = "joined"
    /\ UNCHANGED <<depVars, txs, sched_hints, sched_num_partitions, dependencies,
                   partitioned_txs, partition_executors, merged_write_set,
                   sched_num_finality_txs, state, round_i, rounds_run>>

\* line 80: merge_write_set(), whose body is empty
MergeWriteSet ==
    /\ pc = "joined"
    /\ pc' = "merged"
    /\ UNCHANGED <<depVars, txs, sched_hints, sched_num_partitions, dependencies,
                   partitioned_txs, partition_executors, merged_write_set,
                   sched_num_finality_txs, state, round_i, rounds_run>>

\* line 82: validate_transactions() walks the executors and ends in todo!(): it
\* panics before a count is returned, so the addition to num_finality_txs and lines
\* 105-108 of parallel_execute are never reached
ValidateTransactions ==
    /\ pc = "merged"
    /\ pc' = "panic"
    /\ UNCHANGED <<depVars, txs, sched_hints, sched_num_partitions, dependencies,
                   partitioned_txs, partition_executors, merged_write_set,
                   sched_num_finality_txs, state, round_i, rounds_run>>

\* lines 110-113: the loop has ended; execute_remaining_sequential(), whose body is
\* empty, is called if transactions remain, and parallel_execute returns
Return ==
    /\ pc = "loop" /\ ~ InLoop
    /\ pc' = IF Unfinalized THEN "sequential" ELSE "done"
    /\ UNCHANGED <<depVars, txs, sched_hints, sched_num_partitions, dependencies,
                   partitioned_txs, partition_executors, merged_write_set,
                   sched_num_finality_txs, state, round_i, rounds_run>>

SchedNext ==
    \/ InitDependencies
    \/ SkipRound
    \/ SpawnTasks
    \/ TaskExecute
    \/ JoinAll
    \/ MergeWriteSet
    \/ ValidateTransactions
    \/ Return

\* One call of parallel_execute, the tasks of a round running in any order
SchedSpec == SchedInit /\ [][SchedNext]_vars

\* ================================================================ claims
TailTxs == num_finality_txs..(num_finality_txs + Len(tx_dependency) - 1)

FetchReturned == call.op = "fetch" /\ ~ call.panic

\* the dependencies stored for TxId t of the tail
DepsOf(t) == Elems(tx_dependency[t - num_finality_txs + 1])

\* C1: the partitions returned by fetch_best_partitions(K), K >= 1, are pairwise
\* disjoint, their union is the tail [num_finality_txs, num_finality_txs + len),
\* and each partition is strictly ascending.
C1_PartitionsCoverTail ==
    (FetchReturned /\ call.partition_count >= 1) =>
        LET parts == call.partitions
        IN  /\ \A i, j \in 1..Len(parts) : i # j => Elems(parts[i]) \cap Elems(parts[j]) = {}
            /\ UNION {Elems(parts[i]) : i \in 1..Len(parts)} = TailTxs
            /\ \A i \in 1..Len(parts) :
                   \A k \in 1..(Len(parts[i]) - 1) : parts[i][k] < parts[i][k + 1]

\* the general path returned several partitions, one of them a group of two
C1_Witness ==
    /\ FetchReturned
    /\ ~ all_independent
    /\ call.partition_count >= 2
    /\ Len(call.partitions) >= 2
    /\ \E i \in 1..Len(call.partitions) : Len(call.partitions[i]) >= 2
    /\ \E t \in TailTxs : \E d \in DepsOf(t) : d >= num_finality_txs

\* C2 (as claimed): every returned partitioning keeps each edge t -> t' of the
\* current graph with t' not finalized inside one partition, and the fast path is
\* taken only when the current graph has no edge.
C2_EdgesStayInside ==
    (FetchReturned /\ call.partition_count >= 1) =>
        /\ \A t \in TailTxs : \A d \in DepsOf(t) :
               d >= num_finality_txs =>
                   \E i \in 1..Len(call.partitions) : {t, d} \subseteq Elems(call.partitions[i])
        /\ all_independent => \A t \in TailTxs : DepsOf(t) = {}

\* the nearest earlier hinted writers of the locations t is hinted to read
NearestWriters(h, t) ==
    {w \in 0..(t - 1) :
        \E location \in h[t + 1].read_set :
            /\ location \in h[w + 1].write_set
            /\ \A x \in (w + 1)..(t - 1) : location \notin h[x + 1].write_set}

\* C3: the graph built by TxDependency::new gives each transaction exactly the
\* nearest earlier hinted writer of each hinted read location, every edge points
\* to a lower TxId, and all_independent is true iff there is no edge.
C3_GraphMatchesHints ==
    hints.some =>
        /\ Len(tx_dependency) = Len(hints.v)
        /\ \A t \in 0..(Len(hints.v) - 1) :
               /\ Elems(tx_dependency[t + 1]) = NearestWriters(hints.v, t)
               /\ \A d \in Elems(tx_dependency[t + 1]) : d < t
        /\ all_independent <=> \A t \in 0..(Len(hints.v) - 1) : tx_dependency[t + 1] = <<>>

\* a transaction depends on the nearest writer of a location it reads and not on
\* an earlier, farther writer of that location
C3_Witness ==
    /\ hints.some
    /\ \E t \in 0..(Len(hints.v) - 1) :
           /\ tx_dependency[t + 1] # <<>>
           /\ \E location \in hints.v[t + 1].read_set :
                  \E w \in HintWriters(hints.v, location) :
                      w < t /\ w \notin Elems(tx_dependency[t + 1])

\* C8: update_tx_dependency fails exactly when the new tail length plus the new
\* num_finality_txs differs from the previous total, a failed call leaves graph and
\* num_finality_txs unchanged, a successful one replaces both; hence the total
\* always equals the batch size fixed at construction.
C8_UpdateKeepsBatchSize ==
    /\ [](Len(tx_dependency) + num_finality_txs = num_txs)
    /\ [][call'.op = "update" =>
              LET mismatch == Len(call'.new_deps) + call'.new_nf
                                  # Len(tx_dependency) + num_finality_txs
              IN  /\ call'.panic <=> mismatch
                  /\ mismatch => UNCHANGED <<tx_dependency, num_finality_txs>>
                  /\ ~ mismatch => /\ tx_dependency' = call'.new_deps
                                   /\ num_finality_txs' = call'.new_nf]_vars

\* an update failed on an object whose tail had already been shortened by an
\* earlier successful update
C8_Witness ==
    /\ call.op = "update"
    /\ call.panic
    /\ num_finality_txs >= 1
    /\ Len(tx_dependency) >= 1

\* C9 (as claimed): the list returned by fetch_best_partitions contains no empty
\* partition.
C9_NoEmptyPartition ==
    FetchReturned => \A i \in 1..Len(call.partitions) : call.partitions[i] # <<>>

NoHintsGiven ==
    /\ hints.some
    /\ \A t \in 1..Len(hints.v) : hints.v[t].read_set = {} /\ hints.v[t].write_set = {}

\* C10 (as claimed): with no hints, no two transactions are placed in different
\* partitions.
C10_NoHintsOnePartition ==
    (NoHintsGiven /\ FetchReturned) => Len(call.partitions) <= 1

\* C10 (amended): with no hints the graph has no edge, all_independent is true, and
\* fetch_best_partitions(K) spreads the batch over min(K, n) non-empty partitions.
C10_NoHintsAllIndependent ==
    NoHintsGiven =>
        /\ all_independent
        /\ \A t \in 1..Len(tx_dependency) : tx_dependency[t] = <<>>
        /\ FetchReturned =>
               /\ Len(call.partitions) = min(call.partition_count, Len(hints.v))
               /\ \A i \in 1..Len(call.partitions) : call.partitions[i] # <<>>

\* a batch of several transactions without hints was spread over several partitions
C10_Witness ==
    /\ NoHintsGiven
    /\ FetchReturned
    /\ Len(hints.v) >= 2
    /\ Len(call.partitions) >= 2

\* sequential_execute: the committed state after the first n transactions of the
\* batch were executed one after the other
RECURSIVE SeqState(_, _)
SeqState(batch, n) ==
    IF n = 0 THEN [location \in Locations |-> 0]
    ELSE ExecuteTx(n - 1, batch[n], SeqState(batch, n - 1)).view

\* the call of parallel_execute has ended: it returned, with or without the
\* sequential fallback, or it panicked
Stopped == pc \in {"done", "sequential", "panic"}

\* C4 (as claimed): parallel_execute ends by returning, and the committed state
\* then equals that of executing the batch sequentially in ascending TxId order,
\* whatever the hints were.
C4_SequentialEquivalence ==
    Stopped =>
        /\ pc # "panic"
        /\ state = SeqState(txs, Len(txs))

\* C5 (as claimed): parallel_execute runs at most MAX_NUM_ROUND rounds and ends
\* by returning with every transaction finalized.
C5_Terminates ==
    /\ rounds_run <= MAX_NUM_ROUND
    /\ Stopped =>
           /\ pc # "panic"
           /\ sched_num_finality_txs = Len(txs)

\* t and w were in different partitions of the round
OtherPartition(partitions, t, w) ==
    \E p \in 1..Len(partitions) : t \in Elems(partitions[p]) /\ w \notin Elems(partitions[p])

RECURSIVE ClaimedConflicts(_, _)
\* the TxIds from t on that the rule of the claim finds conflicted: t read a
\* location that merged_write_set holds an earlier writer of, the writer being in
\* another partition or conflicted itself
ClaimedConflicts(t, conflicted) ==
    IF t >= Len(txs) THEN conflicted
    ELSE LET hit == \E location \in txs[t + 1].reads :
                        \E w \in merged_write_set[location] :
                            /\ w < t
                            /\ OtherPartition(partitioned_txs, t, w) \/ w \in conflicted
         IN  ClaimedConflicts(t + 1, IF hit THEN conflicted \cup {t} ELSE conflicted)

\* the length of the conflict-free prefix that starts at num_finality_txs
ClaimedPrefix ==
    LET conflicted == ClaimedConflicts(sched_num_finality_txs, {})
    IN  IF conflicted = {} THEN Len(txs) - sched_num_finality_txs
        ELSE SetMin(conflicted) - sched_num_finality_txs

\* C6 (as claimed): the validation of a round returns the length of the longest
\* conflict-free prefix that starts at num_finality_txs, and num_finality_txs
\* advances by exactly that count.
C6_PrefixOnlyFinalization ==
    [][(pc = "merged" /\ pc' # "merged") =>
           /\ pc' # "panic"
           /\ sched_num_finality_txs' = sched_num_finality_txs + ClaimedPrefix]_vars

\* C11 (as claimed): after a round that finalized zero transactions no further
\* round is executed, and the call ends in execute_remaining_sequential.
C11_StopsAfterIdleRound ==
    /\ [][rounds_run' # rounds_run =>
              ~ (rounds_run >= 1 /\ sched_num_finality_txs = 0)]_vars
    /\ []((rounds_run >= 1 /\ sched_num_finality_txs = 0 /\ Stopped) => pc = "sequential")

\* C13 (as claimed): the executors a round runs are exactly one freshly created
\* PartitionExecutor per partition of the round; no executor created in an earlier
\* round is run again or still held.
C13_FreshExecutorsPerRound ==
    rounds_run >= 1 =>
        /\ Len(partition_executors) = Len(partitioned_txs)
        /\ \A e \in 1..Len(partition_executors) :
               /\ partition_executors[e].created = rounds_run
               /\ partition_executors[e].runs <= 1

\* C14: on the all-independent fast path fetch_best_partitions(K) returns
\* min(K, n) partitions that are contiguous ascending ranges of TxIds, the first
\* starting at num_finality_txs and each next one where the previous ended, of
\* sizes floor(n / min(K, n)) or one more, the larger ones first.
C14_FastPathChunks ==
    (FetchReturned /\ all_independent) =>
        LET parts == call.partitions
            n == Len(tx_dependency)
            m == min(call.partition_count, n)
        IN  /\ m >= 1
            /\ Len(parts) = m
            /\ \A i \in 1..m :
                   /\ Len(parts[i]) \in {n \div m, n \div m + 1}
                   /\ parts[i][1] = IF i = 1 THEN num_finality_txs
                                    ELSE parts[i - 1][Len(parts[i - 1])] + 1
                   /\ \A k \in 1..(Len(parts[i]) - 1) : parts[i][k + 1] = parts[i][k] + 1
            /\ parts[m][Len(parts[m])] = num_finality_txs + n - 1
            /\ \A i \in 1..(m - 1) : Len(parts[i]) >= Len(parts[i + 1])

\* the fast path cut three transactions into a chunk of two and a chunk of one
C14_Witness ==
    /\ FetchReturned
    /\ all_independent
    /\ Len(call.partitions) = 2
    /\ Len(call.partitions[1]) = 2
    /\ Len(call.partitions[2]) = 1

\* the groups formed by the general path of the last fetch_best_partitions call
\* (the call leaves the graph as it found it), as a set of <<weight, position>> keys
FormedGroups == Groups(tx_dependency, num_finality_txs,
                       UnwrapWeights(None, Len(tx_dependency)))

GroupKeys ==
    {key \in (DOMAIN FormedGroups.weighted_group) \X (1..Len(tx_dependency)) :
        key[2] <= Len(FormedGroups.weighted_group[key[1]])}

GroupAt(key) == FormedGroups.weighted_group[key[1]][key[2]]

\* a and b are the two ends of a dependency edge
Linked(a, b) == a \in DepsOf(b) \/ b \in DepsOf(a)

RECURSIVE Component(_)
\* the tail TxIds reachable from the set S over dependency edges in either direction
Component(S) ==
    LET more == S \cup {t \in TailTxs : \E x \in S : Linked(t, x)}
    IN  IF more = S THEN S ELSE Component(more)

\* C15: the groups formed by the general path are exactly the connected components
\* of the undirected dependency graph over the tail: every tail TxId is in exactly
\* one group, once; a group is the component of each of its members; a TxId is a
\* group of its own iff it has no dependency and no tail transaction depends on it.
C15_GroupsAreComponents ==
    (FetchReturned /\ ~ all_independent) =>
        /\ ~ FormedGroups.panic
        /\ FormedGroups.num_group = Cardinality(GroupKeys)
        /\ \A t \in TailTxs :
               /\ Cardinality({key \in GroupKeys : t \in Elems(GroupAt(key))}) = 1
               /\ \A key \in GroupKeys :
                      t \in Elems(GroupAt(key)) =>
                          /\ Elems(GroupAt(key)) = Component({t})
                          /\ Len(GroupAt(key)) = Cardinality(Component({t}))
                          /\ GroupAt(key) = <<t>> <=>
                                 /\ DepsOf(t) = {}
                                 /\ \A x \in TailTxs : t \notin DepsOf(x)

\* a group of three was formed in which two members are joined only through the
\* transaction both depend on, next to no other group
C15_Witness ==
    /\ FetchReturned
    /\ ~ all_independent
    /\ \E key \in GroupKeys :
           /\ Len(GroupAt(key)) = 3
           /\ \E a, b \in Elems(GroupAt(key)) : a # b /\ ~ Linked(a, b)

\* the groups formed by the last fetch_best_partitions call from the weights it took
TakenWeights == UnwrapWeights(call.weights, Len(tx_dependency))

WeightedGroups == Groups(tx_dependency, num_finality_txs, TakenWeights).weighted_group

WeightedKeys ==
    {key \in (DOMAIN WeightedGroups) \X (1..Len(tx_dependency)) :
        key[2] <= Len(WeightedGroups[key[1]])}

RECURSIVE SumWeights(_, _)
\* the sum of the weights of the TxIds of S
SumWeights(S, weights) ==
    IF S = {} THEN 0
    ELSE weights[SetMin(S) - num_finality_txs + 1] + SumWeights(S \ {SetMin(S)}, weights)

\* C16 (as claimed): the weight under which a group of several transactions is filed
\* is the sum of the weights of its members.
C16_GroupWeightIsSum ==
    (FetchReturned /\ ~ all_independent) =>
        \A key \in WeightedKeys :
            Len(WeightedGroups[key[1]][key[2]]) >= 2 =>
                key[1] = SumWeights(Elems(WeightedGroups[key[1]][key[2]]), TakenWeights)

RECURSIVE PlacementOrderFrom(_, _, _)
\* the keys of the groups of wg filed under the weights order[k], order[k + 1], ...,
\* each weight's groups in the order they were pushed
PlacementOrderFrom(wg, order, k) ==
    IF k > Len(order) THEN <<>>
    ELSE [i \in 1..Len(wg[order[k]]) |-> <<order[k], i>>]
             \o PlacementOrderFrom(wg, order, k + 1)

\* the groups placed with the heap, as <<weight, group>> pairs: heaviest weight first
PlacementOrderOf(wg) ==
    LET keys == PlacementOrderFrom(
                    wg, WeightsDescending((DOMAIN wg) \ {RAW_TRANSFER_WEIGHT}), 1)
    IN  [j \in 1..Len(keys) |-> <<keys[j][1], wg[keys[j][1]][keys[j][2]]>>]

PlacementOrder == PlacementOrderOf(WeightedGroups)

\* the transactions distributed as single groups
SingleTxsOf(wg) ==
    IF RAW_TRANSFER_WEIGHT \in DOMAIN wg
    THEN UNION {Elems(wg[RAW_TRANSFER_WEIGHT][k]) : k \in 1..Len(wg[RAW_TRANSFER_WEIGHT])}
    ELSE {}

SingleTxs == SingleTxsOf(WeightedGroups)

\* the returned partition that holds the group, 0 if none does
PartitionHolding(group) ==
    LET holders == {i \in 1..Len(call.partitions) :
                       Elems(group) \subseteq Elems(call.partitions[i])}
    IN  IF holders = {} THEN 0 ELSE SetMin(holders)

RECURSIVE Accumulated(_, _, _, _)
\* the weight of returned partition i when the j-th group of placed is about to be
\* placed: its single transactions and the groups it was given before
Accumulated(placed, singles, j, i) ==
    IF j = 1
    THEN Cardinality(singles \cap Elems(call.partitions[i])) * RAW_TRANSFER_WEIGHT
    ELSE Accumulated(placed, singles, j - 1, i)
             + (IF PartitionHolding(placed[j - 1][2]) = i THEN placed[j - 1][1] ELSE 0)

UnitWeights == \A i \in 1..Len(TakenWeights) : TakenWeights[i] = RAW_TRANSFER_WEIGHT

\* C17: once the single groups are distributed, the other groups are taken in
\* non-increasing order of the weight they are filed under and each goes to a
\* partition whose accumulated weight (its single groups, plus the weights of the
\* groups it was given before) is least at that moment; with unit weights the
\* partitions' final weights differ by at most max(1, the heaviest such group).
C17_MinWeightFirst ==
    (FetchReturned /\ ~ all_independent /\ call.partition_count >= 1) =>
        LET parts == call.partitions
            wg == WeightedGroups
            placed == PlacementOrderOf(wg)
            singles == SingleTxsOf(wg)
        IN  /\ \A j \in 1..Len(placed) :
                   LET holder == PartitionHolding(placed[j][2])
                   IN  /\ j > 1 => placed[j - 1][1] >= placed[j][1]
                       /\ holder \in 1..Len(parts)
                       /\ \A i \in 1..Len(parts) :
                              Accumulated(placed, singles, j, holder)
                                  <= Accumulated(placed, singles, j, i)
            /\ UnitWeights =>
                   \A a, b \in 1..Len(parts) :
                       Len(parts[a]) - Len(parts[b]) <=
                           SetMax({1} \cup {placed[j][1] : j \in 1..Len(placed)})

\* next to a single group, two groups filed under different weights were placed
\* in two different partitions
C17_Witness ==
    /\ FetchReturned
    /\ ~ all_independent
    /\ call.weights.some
    /\ SingleTxs # {}
    /\ Len(call.partitions) = 2
    /\ Len(PlacementOrder) = 2
    /\ PlacementOrder[1][1] > PlacementOrder[2][1]
    /\ PartitionHolding(PlacementOrder[1][2]) # PartitionHolding(PlacementOrder[2][2])

\* C19 (as claimed): no fetch_best_partitions call panics on its index arithmetic
\* (a subtraction below zero, a remainder by zero, an index past the tail).
C19_IndexArithmeticInRange ==
    call.op = "fetch" => ~ call.panic

\* C20 (as claimed): fetch_best_partitions(K) returns at most K partitions, and
\* exactly min(K, G) of them when the tail is not empty, G being the number of
\* groups (of tail transactions on the fast path).
C20_PartitionCount ==
    FetchReturned =>
        /\ Len(call.partitions) <= call.partition_count
        /\ Len(tx_dependency) >= 1 =>
               Len(call.partitions) =
                   min(call.partition_count,
                       IF all_independent THEN Len(tx_dependency)
                       ELSE FormedGroups.num_group)

\* C12: merge_write_set and validate_transactions start only after every task
\* spawned in the round has completed: outside the span between spawn and join no
\* task is pending, and no step that starts the merge or the validation, or that
\* changes merged_write_set, the committed state, num_finality_txs or the round
\* count, is taken while one is.
C12_RoundBarrier ==
    /\ [](pc # "spawned" => \A e \in 1..Len(partition_executors) : TaskDone(e))
    /\ [][(\/ pc' \in {"merged", "panic"} /\ pc' # pc
           \/ merged_write_set' # merged_write_set
           \/ state' # state
           \/ sched_num_finality_txs' # sched_num_finality_txs
           \/ rounds_run' # rounds_run) =>
              \A e \in 1..Len(partition_executors) : TaskDone(e)]_vars

\* merge_write_set has run in a round of at least two tasks, each of which has
\* completed
C12_Witness ==
    /\ pc = "merged"
    /\ Len(partition_executors) >= 2
    /\ \A e \in 1..Len(partition_executors) : partition_executors[e].runs = 1

====
